---- MODULE Spec2Model ----
(***************************************************************************)
(* Model of the multi-sample SuMD controller of                            *)
(* scripts/sumd_multisampling.py: the sample worker                        *)
(* (run_single_sample_worker), the batch runner                            *)
(* (run_multi_sample_iteration) and the convergence loop (main).           *)
(*                                                                         *)
(* run_multi_sample_iteration is modelled from lines 464-560, the process   *)
(* pool version; the text that follows the return statement on line 560    *)
(* (through line 628) is the remainder of an older thread pool version.    *)
(*                                                                         *)
(* Three specifications: Spec, the whole run in an environment whose        *)
(* stages write their output when they exit 0 and whose workers finish;    *)
(* SpecTimeout, Spec with workers that pass the 3600 s of line 510;        *)
(* SpecWorker, one call of the worker in an environment whose stages may   *)
(* exit 0 without their output.  Stages on their own: SpecSeed (the seed   *)
(* of run_md_simulation_process), SpecPrepare (the force field loop of     *)
(* prepare_pdb_system), SpecExtract (calculate_distance_from_structure);   *)
(* SpecMaxWorkers is Spec for command lines that give --max_workers.       *)
(* Two single-process scripts are modelled on their own: SpecRunSumd is    *)
(* run_sumd of SuMD_script.py, SpecGromacsMain is main of                  *)
(* scripts/sumd_gromacs.py.                                                *)
(*                                                                         *)
(* Numbers: every Python float is kept as a fixed-point integer, value     *)
(* times 100 (1.0 nm is 100, 5.0 Angstrom is 500).  float('inf') is Inf,   *)
(* None is the integer None, an unbound Python local is Unbound.           *)
(***************************************************************************)
EXTENDS Integers, Naturals, Sequences, FiniteSets, TLC

\* ------------------------------------------------------------------ bounds
MaxSamples == 2
MaxIterations == 2
MaxRuns == 2            \* runs of the same sample of the same iteration

\* --------------------------------------------------------------- constants
Inf == 1000000          \* float('inf'): larger than every finite value used
None == -1              \* Python None in a numeric field
Unbound == -2           \* a local that was never assigned
GroDistance == 100      \* the 1.0 (nm) returned for every .gro structure

\* values of --distance_threshold (nm) and --simulation_threshold (Angstrom)
DistanceThresholds == {50, 100}
SimulationThresholds == {500, 1000}
\* values of multiprocessing.cpu_count()
CpuCounts == {1, 2}

\* ------------------------------------------------------------- structures
\* A structure file is named by the iteration and sample directory it lies in.
InputStructure == [iteration |-> 0, sample_id |-> 0, file |-> "input"]
NoneStructure == [iteration |-> 0, sample_id |-> 0, file |-> "None"]
UnboundStructure == [iteration |-> 0, sample_id |-> 0, file |-> "Unbound"]
SampleFile(iteration, sample_id, name) ==
    [iteration |-> iteration, sample_id |-> sample_id, file |-> name]

\* x * 10 on a float that may be inf
Times10(x) == IF x = Inf THEN Inf ELSE x * 10

\* ---------------------------------------------------------------- extractor
\* A structure: the coordinates (Angstrom, on one axis) of the atoms of
\* chain1 and of chain2, in file order.
Coords == {0, 20, 40}
Chains == {<<>>} \cup {<<a>> : a \in Coords} \cup {<<a, b>> : a, b \in Coords}
Structures == [chain1 : Chains, chain2 : Chains]
NoAtoms == [chain1 |-> <<>>, chain2 |-> <<>>]

RECURSIVE Sum(_)
Sum(seq) == IF seq = <<>> THEN 0 ELSE Head(seq) + Sum(Tail(seq))
Abs(x) == IF x < 0 THEN -x ELSE x

\* lines 95-99: the norm of the difference of the two np.mean centroids,
\* divided by 10; as fixed point (times 100) that is
\* 10 * |sum1/n1 - sum2/n2|
CentroidDistance(structure) ==
    LET n1 == Len(structure.chain1)
        n2 == Len(structure.chain2)
    IN  (10 * Abs(Sum(structure.chain1) * n2 - Sum(structure.chain2) * n1))
            \div (n1 * n2)

\* calculate_distance_from_structure.  A .pdb file: the centroid distance,
\* inf when a chain has no atom (lines 69-102).  A .gro file: 1.0 when the
\* grompp call does not raise, inf when it raises (the exception is caught
\* inside), whatever the structure holds (lines 104-134).  Any other
\* extension: inf.
calculate_distance_from_structure(file_ext, structure, outcome) ==
    IF file_ext = ".pdb"
    THEN (IF structure.chain1 = <<>> \/ structure.chain2 = <<>>
          THEN Inf
          ELSE CentroidDistance(structure))
    ELSE IF file_ext = ".gro"
    THEN (IF outcome = "ok" THEN GroDistance ELSE Inf)
    ELSE Inf

\* ------------------------------------------------------------ sample worker
\* What the environment does to one worker: each step of the worker either
\* succeeds or raises; a distance call is "ok" or "caught" (grompp raised
\* inside calculate_distance_from_structure, which returns inf).
\*   makedirs : os.makedirs(sample_dir), line 259
\*   copy     : the shutil.copy2 calls and os.chdir, lines 267-272
\*   d0       : the initial distance, line 275
\*   em       : run_energy_minimization_process, line 281
\*   d1       : the distance after minimization, line 282
\*   md       : run_md_simulation_process, line 290
\*   d2       : the distance after MD, line 291
StepOutcomes == {"ok", "raise"}
DistanceOutcomes == {"ok", "caught"}
\* An engine stage (run_energy_minimization_process, run_md_simulation_process)
\* has a third outcome: every run_command exits 0 and the output structure
\* (em.gro, md.gro) is not there; lines 385 and 462 return its name unchecked.
StageOutcomes == StepOutcomes \cup {"missing"}
\* A step the worker never reaches has no outcome: it is left "ok", so that
\* each behaviour of the environment is listed once.
WorkerEnvOver(stage_outcomes) ==
    {env \in [makedirs : StepOutcomes, copy : StepOutcomes,
              d0 : DistanceOutcomes, em : stage_outcomes, d1 : DistanceOutcomes,
              md : stage_outcomes, d2 : DistanceOutcomes] :
        /\ (env.makedirs = "raise" => env.copy = "ok")
        /\ (env.makedirs = "raise" \/ env.copy = "raise"
               => env.d0 = "ok" /\ env.em = "ok")
        /\ (env.makedirs = "raise" \/ env.copy = "raise" \/ env.em = "raise"
               => env.d1 = "ok" /\ env.md = "ok")
        /\ (env.d0 = "caught" \/ env.em = "missing" => env.md = "ok")
        /\ (env.makedirs = "raise" \/ env.copy = "raise" \/ env.em = "raise"
               \/ env.md = "raise" \/ env.d0 = "caught" \/ env.em = "missing"
               => env.d2 = "ok")}

\* the environments in which every stage that exits 0 has written its output
WorkerEnv == WorkerEnvOver(StepOutcomes)
\* the environments with the stages that exit 0 without their output
WorkerEnvMissing == WorkerEnvOver(StageOutcomes)

NoError == "no error key"

\* the dict returned by the except branch (lines 327-338)
FailedResult(sample_id, message) ==
    [sample_id |-> sample_id, initial_distance |-> Inf, em_distance |-> Inf,
     md_distance |-> Inf, final_distance |-> Inf,
     final_structure |-> NoneStructure, simulation_type |-> "failed",
     error |-> message]

\* the dict returned after MD with final_distance taken from em_distance
EmMdResultFinalEm(sample_id, iteration, initial_distance, em_distance, md_distance) ==
    [sample_id |-> sample_id, initial_distance |-> initial_distance,
     em_distance |-> em_distance, md_distance |-> md_distance,
     final_distance |-> em_distance,
     final_structure |-> SampleFile(iteration, sample_id, "md.gro"),
     simulation_type |-> "EM+MD", error |-> NoError]

\* the dict returned after MD (lines 296-306)
EmMdResult(sample_id, iteration, initial_distance, em_distance, md_distance) ==
    [sample_id |-> sample_id, initial_distance |-> initial_distance,
     em_distance |-> em_distance, md_distance |-> md_distance,
     final_distance |-> md_distance,
     final_structure |-> SampleFile(iteration, sample_id, "md.gro"),
     simulation_type |-> "EM+MD", error |-> NoError]

\* the dict returned when MD is skipped (lines 313-323)
EmOnlyResult(sample_id, iteration, initial_distance, em_distance) ==
    [sample_id |-> sample_id, initial_distance |-> initial_distance,
     em_distance |-> em_distance, md_distance |-> None,
     final_distance |-> em_distance,
     final_structure |-> SampleFile(iteration, sample_id, "em.gro"),
     simulation_type |-> "EM_only", error |-> NoError]

\* the gate with the nm distance compared to the Angstrom threshold as is
MdGateNoConversion(initial_distance, distance_threshold_angstrom) ==
    initial_distance <= distance_threshold_angstrom

\* the gate of line 286, both sides in Angstrom
MdGate(initial_distance, distance_threshold_angstrom) ==
    Times10(initial_distance) <= distance_threshold_angstrom

\* run_single_sample_worker: the value the future ends with.
\*   raised   : the call ended by an exception (only os.makedirs, line 259,
\*              lies outside the try)
\*   result   : the returned dict (meaningless when raised)
\*   stages   : the engine stages invoked, in order
\*   initial  : the worker's local initial_distance (None before line 275)
\*   produced : the output structures the stages have written
\* The distance after a stage is "ok" even when the stage's output is missing:
\* the grompp of line 121 runs with check=False.  MD on a missing em.gro
\* raises in its grompp (line 444).
run_single_sample_worker(sample_id, iteration, distance_threshold_angstrom, env) ==
    LET initial_distance == calculate_distance_from_structure(".gro", NoAtoms, env.d0)
        em_distance == calculate_distance_from_structure(".gro", NoAtoms, env.d1)
        md_distance == calculate_distance_from_structure(".gro", NoAtoms, env.d2)
        em_produced == IF env.em = "ok" THEN {"em.gro"} ELSE {}
        md_produced == IF env.md = "ok" THEN {"md.gro"} ELSE {}
        Out(raised, result, stages, initial, produced) ==
            [raised |-> raised, result |-> result, stages |-> stages,
             initial |-> initial, produced |-> produced]
        Fail(message, stages, initial, produced) ==
            Out(FALSE, FailedResult(sample_id, message), stages, initial, produced)
    IN  IF env.makedirs = "raise"
        THEN Out(TRUE, FailedResult(sample_id, "makedirs"), <<>>, None, {})
        ELSE IF env.copy = "raise" THEN Fail("copy", <<>>, None, {})
        ELSE IF env.em = "raise"
        THEN Fail("em", <<"MINIMIZE">>, initial_distance, {})
        ELSE IF MdGate(initial_distance, distance_threshold_angstrom)
        THEN IF env.md = "raise" \/ env.em = "missing"
             THEN Fail("md", <<"MINIMIZE", "MD_SEGMENT">>, initial_distance,
                       em_produced)
             ELSE Out(FALSE,
                      EmMdResult(sample_id, iteration, initial_distance,
                                 em_distance, md_distance),
                      <<"MINIMIZE", "MD_SEGMENT">>, initial_distance,
                      em_produced \cup md_produced)
        ELSE Out(FALSE,
                 EmOnlyResult(sample_id, iteration, initial_distance, em_distance),
                 <<"MINIMIZE">>, initial_distance, em_produced)

\* --------------------------------------------------------------- selection
\* the filter of line 519 left out
ValidResultsUnfiltered(results) == results

\* valid_results of line 519: the results with a final structure, in order
RECURSIVE ValidResults(_)
ValidResults(results) ==
    IF results = <<>> THEN <<>>
    ELSE LET rest == ValidResults(Tail(results))
         IN  IF Head(results).final_structure # NoneStructure
             THEN <<Head(results)>> \o rest
             ELSE rest

\* max in place of min
PyMaxByFinalDistance(seq) ==
    LET i == CHOOSE i \in 1..Len(seq) :
                 \A j \in 1..Len(seq) :
                     seq[i].final_distance >= seq[j].final_distance
    IN  seq[i]

\* Python's min(seq, key=final_distance): the first element, in sequence
\* order, whose key no other element is below
PyMinByFinalDistance(seq) ==
    LET i == CHOOSE i \in 1..Len(seq) :
                 /\ \A j \in 1..Len(seq) :
                        seq[i].final_distance <= seq[j].final_distance
                 /\ \A j \in 1..(i - 1) :
                        seq[j].final_distance > seq[i].final_distance
    IN  seq[i]

\* ------------------------------------------------------------------- state
VARIABLES
    args,                   \* the parsed command line (main, lines 635-647)
    cpu,                    \* multiprocessing.cpu_count()
    pc,                     \* where main is: "loop", "collect", "report",
                            \*   "selected", "done" (returned 0),
                            \*   "crashed" (ended by an exception)
    iteration,              \* main's loop variable (0 before the loop)
    current_structure,      \* main, lines 672 and 705
    convergence,            \* main, lines 673 and 701
    best_structure,         \* main, line 678
    best_distance,          \* main, line 678
    best_distance_angstrom, \* main, line 693
    input_file,             \* run_multi_sample_iteration's parameter
    status,                 \* per sample: "idle", "queued", "running",
                            \*   "collected"
    overdue,                \* the samples whose worker has run for longer
                            \*   than the 3600 s of line 510
    future,                 \* per sample: what its future ended with
    sample_results,         \* run_multi_sample_iteration, line 492
    best_result,            \* run_multi_sample_iteration, line 526
    summary,                \* iterations whose iteration_summary.txt is written
    report,                 \* what main printed last, or the exception
    seeds,                  \* per sample: the gen_seed of each of its MD runs
    prepare,                \* the locals of prepare_pdb_system
    extract,                \* a call of calculate_distance_from_structure
    sumd,                   \* the locals of SuMD_script.run_sumd
    gmx                     \* the locals of sumd_gromacs.main

vars == <<args, cpu, pc, iteration, current_structure, convergence,
          best_structure, best_distance, best_distance_angstrom, input_file,
          status, overdue, future, sample_results, best_result, summary,
          report, seeds, prepare, extract, sumd, gmx>>

main_vars == <<current_structure, convergence, best_structure, best_distance,
               best_distance_angstrom>>
batch_vars == <<input_file, status, overdue, future, sample_results,
                best_result>>
\* the state of the stages that are modelled on their own
\* the state of the two single-process scripts, modelled on their own
script_vars == <<sumd, gmx>>
stage_vars == <<seeds, prepare, extract, script_vars>>
\* the state of the run
run_vars == <<args, cpu, pc, iteration, main_vars, batch_vars, summary, report>>

Samples == 1..args.num_samples

NoFuture == [raised |-> FALSE, result |-> FailedResult(0, "pending"),
             stages |-> <<>>, initial |-> None, produced |-> {}]
NoResult == FailedResult(0, "no best")
NoReport == [state |-> "running", structure |-> UnboundStructure,
             distance |-> Unbound]

\* the command lines with --max_workers in max_workers_values (None: not given)
ArgsWith(max_workers_values) ==
    [distance_threshold : DistanceThresholds,
     simulation_threshold : SimulationThresholds,
     max_iterations : 0..MaxIterations,
     num_samples : 1..MaxSamples,
     max_workers : max_workers_values]

Args == ArgsWith({None})

Min(a, b) == IF a <= b THEN a ELSE b

\* lines 650-653: the maximum worker count main computes and logs (line 668)
max_workers_limit ==
    IF args.max_workers = None
    THEN Min(args.num_samples, cpu)
    ELSE Min(args.max_workers, Min(args.num_samples, cpu))

\* a pool of num_samples processes whatever the CPU count
max_workers_num_samples == args.num_samples

\* line 489: the size of the process pool
max_workers == Min(args.num_samples, cpu)

\* nothing of the stages modelled on their own has happened
NoSeeds == [s \in 1..MaxSamples + 1 |-> <<>>]
NoPrepare == [ff |-> 0, files |-> {}, tried |-> <<>>, wrote |-> <<>>,
              success |-> FALSE, accepted |-> 0, returned |-> "not called"]
NoExtract == [file_ext |-> "none", structure |-> NoAtoms, outcome |-> "ok",
              distance |-> Unbound]
\* a structure file of SuMD_script.py: emin_<n>_<sample>.gro,
\* segment_<n>.gro, the neutralized.gro of prepare_system
Coord(kind, n, sample) == [kind |-> kind, n |-> n, sample |-> sample]
NoCoord == Coord("Unbound", 0, 0)
NoSumd == [pc |-> "idle",
           args |-> [max_emin_iter |-> 0, max_segments |-> 0,
                     distance_threshold |-> 0],
           current_coord |-> NoCoord, emin_iter |-> 0,
           sample_results |-> <<>>, emin_starts |-> <<>>, emin_end |-> "",
           all_best_structures |-> <<>>, segment |-> 0,
           segment_starts |-> <<>>, previous_distance |-> None,
           current_distance |-> Unbound, md_end |-> "",
           returned |-> Unbound]
NoGmx == [pc |-> "idle", distance_threshold |-> 0, stages |-> <<>>,
          failed |-> {}, files |-> {}, initial_distance |-> Unbound,
          em_distance |-> Unbound, md_distance |-> Unbound,
          returned |-> None]
ScriptsIdle ==
    /\ sumd = NoSumd
    /\ gmx = NoGmx
StagesIdle ==
    /\ seeds = NoSeeds
    /\ prepare = NoPrepare
    /\ extract = NoExtract
    /\ ScriptsIdle

\* main before its loop (lines 672-673), for the command line args
Start ==
    /\ cpu \in CpuCounts
    /\ pc = "loop"
    /\ iteration = 0
    /\ current_structure = InputStructure
    /\ convergence = FALSE
    /\ best_structure = UnboundStructure
    /\ best_distance = Unbound
    /\ best_distance_angstrom = Unbound
    /\ input_file = UnboundStructure
    /\ status = [s \in 1..MaxSamples + 1 |-> "idle"]
    /\ overdue = {}
    /\ future = [s \in 1..MaxSamples + 1 |-> NoFuture]
    /\ sample_results = <<>>
    /\ best_result = NoResult
    /\ summary = {}
    /\ report = NoReport
    /\ StagesIdle

Init == args \in Args /\ Start

\* ----------------------------------------------------------------- actions
\* the convergence test with < in place of <=
ConvergedStrict(distance, distance_threshold) == distance < distance_threshold

\* the convergence test left out in the last allowed iteration
ConvergedUnlessLast(distance, distance_threshold) ==
    distance <= distance_threshold /\ iteration < args.max_iterations

\* the convergence test of line 699
Converged(distance, distance_threshold) == distance <= distance_threshold

\* every iteration run on the run's input: line 705 without effect
IterationStartFromRunInput ==
    /\ pc = "loop"
    /\ iteration < args.max_iterations
    /\ iteration' = iteration + 1
    /\ pc' = "collect"
    /\ input_file' = InputStructure
    /\ status' = [s \in DOMAIN status |-> IF s \in Samples THEN "queued" ELSE "idle"]
    /\ UNCHANGED <<stage_vars, args, cpu, main_vars, overdue, future, sample_results,
                   best_result, summary, report>>

\* A loop that calls the batch runner again without advancing its index.
IterationStartSameIndex ==
    /\ pc = "loop"
    /\ iteration < args.max_iterations
    /\ iteration' = iteration
    /\ pc' = "collect"
    /\ input_file' = current_structure
    /\ status' = [s \in DOMAIN status |-> IF s \in Samples THEN "queued" ELSE "idle"]
    /\ UNCHANGED <<stage_vars, args, cpu, main_vars, overdue, future, sample_results,
                   best_result, summary, report>>

\* main line 675 enters the next iteration and calls
\* run_multi_sample_iteration, which prepares the iteration directory
\* (lines 468-486) and submits every sample (lines 494-505).
IterationStart ==
    /\ pc = "loop"
    /\ iteration < args.max_iterations
    /\ iteration' = iteration + 1
    /\ pc' = "collect"
    /\ input_file' = current_structure
    /\ status' = [s \in DOMAIN status |-> IF s \in Samples THEN "queued" ELSE "idle"]
    /\ UNCHANGED <<stage_vars, args, cpu, main_vars, overdue, future, sample_results,
                   best_result, summary, report>>

\* The preparation of lines 472-486 raises (prepare_pdb_system line 187 or a
\* failed run_command for a .pdb input, shutil.copy2 for a .gro input):
\* nothing catches it, main ends by the exception.
IterationPrepareRaises ==
    /\ pc = "loop"
    /\ iteration < args.max_iterations
    /\ iteration' = iteration + 1
    /\ pc' = "crashed"
    /\ report' = [state |-> "exception in prepare",
                  structure |-> UnboundStructure, distance |-> Unbound]
    /\ UNCHANGED <<stage_vars, args, cpu, main_vars, batch_vars, summary>>

Running == {s \in Samples : status[s] = "running"}
Queued == {s \in Samples : status[s] = "queued"}

\* A free pool process takes the next submitted call (submission order).
WorkerStart ==
    /\ pc = "collect"
    /\ Queued # {}
    /\ Cardinality(Running) < max_workers
    /\ LET s == CHOOSE q \in Queued : \A r \in Queued : q <= r
       IN  status' = [status EXCEPT ![s] = "running"]
    /\ UNCHANGED <<stage_vars, args, cpu, pc, iteration, main_vars, input_file, overdue,
                   future, sample_results, best_result, summary, report>>

\* A running worker finishes and its future completes.  as_completed
\* (line 508) yields futures in the order they complete and the collecting
\* loop does nothing else, so the pass of lines 509-516 over this future is
\* part of the step: a returned dict is appended to sample_results, an
\* exception is logged and leaves no entry.
FutureCompletes(s) ==
    /\ \E env \in WorkerEnv :
           LET f == run_single_sample_worker(s, iteration,
                                             args.simulation_threshold, env)
           IN  /\ future' = [future EXCEPT ![s] = f]
               /\ sample_results' = IF f.raised
                                    THEN sample_results
                                    ELSE Append(sample_results, f.result)
    /\ status' = [status EXCEPT ![s] = "collected"]
    /\ UNCHANGED <<stage_vars, args, cpu, pc, iteration, main_vars, input_file, overdue,
                   best_result, summary, report>>

\* a worker finishes within the 3600 s of line 510
WorkerFinish(s) ==
    /\ pc = "collect"
    /\ status[s] = "running"
    /\ s \notin overdue
    /\ FutureCompletes(s)

AllCollected == \A s \in Samples : status[s] = "collected"

\* The locals of run_multi_sample_iteration are gone once it has returned.
BatchReset ==
    /\ input_file' = UnboundStructure
    /\ status' = [s \in DOMAIN status |-> "idle"]
    /\ overdue' = {}
    /\ future' = [s \in DOMAIN future |-> NoFuture]
    /\ sample_results' = <<>>
    /\ best_result' = NoResult

\* the number of results of a given simulation_type
RECURSIVE CountType(_, _)
CountType(results, simulation_type) ==
    IF results = <<>> THEN 0
    ELSE (IF Head(results).simulation_type = simulation_type THEN 1 ELSE 0)
         + CountType(Tail(results), simulation_type)

\* lines 529-530: counted in valid_results
em_only_count(sample_results_) == CountType(ValidResults(sample_results_), "EM_only")
em_md_count(sample_results_) == CountType(ValidResults(sample_results_), "EM+MD")
\* the failed samples counted in valid_results
failed_count_in_valid(sample_results_) ==
    CountType(ValidResults(sample_results_), "failed")
\* line 531: counted in sample_results
failed_count(sample_results_) == CountType(sample_results_, "failed")

\* lines 519-526: the pool has shut down; filter the valid results and take
\* the one with the smallest final_distance.
SelectBest ==
    /\ pc = "collect"
    /\ AllCollected
    /\ best_result' = IF ValidResults(sample_results) = <<>>
                      THEN NoResult
                      ELSE PyMinByFinalDistance(ValidResults(sample_results))
    /\ pc' = "selected"
    /\ UNCHANGED <<stage_vars, args, cpu, iteration, main_vars, input_file, status,
                   overdue, future, sample_results, summary, report>>

\* main going on to the next iteration after (None, inf), without the break
IterationAllFailedContinues ==
    /\ pc = "selected"
    /\ ValidResults(sample_results) = <<>>
    /\ best_structure' = NoneStructure
    /\ best_distance' = Inf
    /\ pc' = "loop"
    /\ BatchReset
    /\ UNCHANGED <<stage_vars, args, cpu, iteration, current_structure, convergence,
                   best_distance_angstrom, summary, report>>

\* lines 521-523 and main lines 689-691: no valid result, (None, inf) is
\* returned and main leaves the loop.
IterationAllFailed ==
    /\ pc = "selected"
    /\ ValidResults(sample_results) = <<>>
    /\ best_structure' = NoneStructure
    /\ best_distance' = Inf
    /\ pc' = "report"
    /\ BatchReset
    /\ UNCHANGED <<stage_vars, args, cpu, iteration, current_structure, convergence,
                   best_distance_angstrom, summary, report>>

\* line 539: opening iteration_summary.txt raises; the exception leaves
\* run_multi_sample_iteration and main.
IterationSummaryRaises ==
    /\ pc = "selected"
    /\ ValidResults(sample_results) # <<>>
    /\ pc' = "crashed"
    /\ report' = [state |-> "exception in summary",
                  structure |-> UnboundStructure, distance |-> Unbound]
    /\ BatchReset
    /\ UNCHANGED <<stage_vars, args, cpu, iteration, main_vars, summary>>

\* lines 539-560 write the summary and return the best; main lines 693-702:
\* converged, break.
IterationConverged ==
    /\ pc = "selected"
    /\ ValidResults(sample_results) # <<>>
    /\ Converged(best_result.final_distance, args.distance_threshold)
    /\ best_structure' = best_result.final_structure
    /\ best_distance' = best_result.final_distance
    /\ best_distance_angstrom' = Times10(best_result.final_distance)
    /\ summary' = summary \cup {iteration}
    /\ convergence' = TRUE
    /\ pc' = "report"
    /\ BatchReset
    /\ UNCHANGED <<stage_vars, args, cpu, iteration, current_structure, report>>

\* the iteration without the update of line 705
IterationContinueKeepsStructure ==
    /\ pc = "selected"
    /\ ValidResults(sample_results) # <<>>
    /\ ~Converged(best_result.final_distance, args.distance_threshold)
    /\ best_structure' = best_result.final_structure
    /\ best_distance' = best_result.final_distance
    /\ best_distance_angstrom' = Times10(best_result.final_distance)
    /\ summary' = summary \cup {iteration}
    /\ pc' = "loop"
    /\ BatchReset
    /\ UNCHANGED <<stage_vars, args, cpu, iteration, current_structure, convergence, report>>

\* the best adopted only when it is nearer than the best main holds
IterationContinueKeepsNearest ==
    /\ pc = "selected"
    /\ ValidResults(sample_results) # <<>>
    /\ ~Converged(best_result.final_distance, args.distance_threshold)
    /\ LET nearer == \/ best_distance = Unbound
                     \/ best_result.final_distance < best_distance
       IN  /\ best_structure' = IF nearer THEN best_result.final_structure
                                ELSE best_structure
           /\ best_distance' = IF nearer THEN best_result.final_distance
                               ELSE best_distance
           /\ best_distance_angstrom' = Times10(best_distance')
           /\ current_structure' = best_structure'
    /\ summary' = summary \cup {iteration}
    /\ pc' = "loop"
    /\ BatchReset
    /\ UNCHANGED <<stage_vars, args, cpu, iteration, convergence, report>>

\* lines 539-560 write the summary and return the best; main lines 693-705:
\* not converged, the best becomes the next input.
IterationContinue ==
    /\ pc = "selected"
    /\ ValidResults(sample_results) # <<>>
    /\ ~Converged(best_result.final_distance, args.distance_threshold)
    /\ best_structure' = best_result.final_structure
    /\ best_distance' = best_result.final_distance
    /\ best_distance_angstrom' = Times10(best_result.final_distance)
    /\ current_structure' = best_result.final_structure
    /\ summary' = summary \cup {iteration}
    /\ pc' = "loop"
    /\ BatchReset
    /\ UNCHANGED <<stage_vars, args, cpu, iteration, convergence, report>>

\* range(1, max_iterations + 1) is used up (line 675)
LoopExhausted ==
    /\ pc = "loop"
    /\ iteration >= args.max_iterations
    /\ pc' = "report"
    /\ UNCHANGED <<stage_vars, args, cpu, iteration, main_vars, batch_vars, summary, report>>

\* lines 709-713
ReportConverged ==
    /\ pc = "report"
    /\ convergence
    /\ report' = [state |-> "converged", structure |-> best_structure,
                  distance |-> best_distance]
    /\ pc' = "done"
    /\ UNCHANGED <<stage_vars, args, cpu, iteration, main_vars, batch_vars, summary>>

\* lines 714-717
ReportNotConverged ==
    /\ pc = "report"
    /\ ~convergence
    /\ best_distance_angstrom # Unbound
    /\ report' = [state |-> "max iterations reached",
                  structure |-> best_structure, distance |-> best_distance]
    /\ pc' = "done"
    /\ UNCHANGED <<stage_vars, args, cpu, iteration, main_vars, batch_vars, summary>>

\* line 716 reads best_distance_angstrom, which line 693 never assigned
ReportNameError ==
    /\ pc = "report"
    /\ ~convergence
    /\ best_distance_angstrom = Unbound
    /\ report' = [state |-> "exception NameError",
                  structure |-> UnboundStructure, distance |-> Unbound]
    /\ pc' = "crashed"
    /\ UNCHANGED <<stage_vars, args, cpu, iteration, main_vars, batch_vars, summary>>

Next ==
    \/ IterationStart
    \/ IterationPrepareRaises
    \/ WorkerStart
    \/ \E s \in Samples : WorkerFinish(s)
    \/ SelectBest
    \/ IterationAllFailed
    \/ IterationSummaryRaises
    \/ IterationConverged
    \/ IterationContinue
    \/ LoopExhausted
    \/ ReportConverged
    \/ ReportNotConverged
    \/ ReportNameError

Spec == Init /\ [][Next]_vars

\* the runs whose command line gives --max_workers
InitMaxWorkers == args \in ArgsWith(1..MaxSamples) /\ Start

SpecMaxWorkers == InitMaxWorkers /\ [][Next]_vars

\* ------------------------------------------------------ files of a worker
\* the directory of a sample (lines 469 and 258), and the directory the
\* program was started in
SampleDir(iter, sample_id) == [iteration |-> iter, sample_id |-> sample_id]
LaunchDir == [iteration |-> 0, sample_id |-> 0]

\* The files the worker of a sample writes.  In its sample directory: the
\* copies of lines 267-270, distance.mdp and distance.tpr (lines 112-125,
\* output_dir is the sample directory), the files of MINIMIZE and of
\* MD_SEGMENT (written in the working directory, which line 272 made the
\* sample directory).  In the launch directory: gromacs_simulation.log, the
\* FileHandler of line 23, which every worker process opens when it imports
\* the module and every logging call of the worker appends to (line 261).
FilesWritten(iter, sample_id) ==
    {[dir |-> SampleDir(iter, sample_id), name |-> n] :
        n \in {"input.gro", "topol.top", "posre.itp", "distance.mdp",
               "distance.tpr", "em.mdp", "em.tpr", "em.gro", "md.mdp",
               "md.tpr", "md.gro", "md.xtc"}}
    \cup {[dir |-> LaunchDir, name |-> "gromacs_simulation.log"]}

\* ------------------------------------------------- workers that take long
\* A running worker passes 3600 s.  Nothing happens in the program: the
\* subprocess calls of the worker carry no timeout (run_command, line 44,
\* timeout=None), as_completed (line 508) is called without one, and the
\* timeout of line 510 is given to future.result on a future that has
\* already completed.
WorkerOverdue(s) ==
    /\ pc = "collect"
    /\ status[s] = "running"
    /\ s \notin overdue
    /\ overdue' = overdue \cup {s}
    /\ UNCHANGED <<stage_vars, args, cpu, pc, iteration, main_vars, input_file, status,
                   future, sample_results, best_result, summary, report>>

\* an overdue worker finishes after all: as_completed yields its future and
\* lines 509-516 treat it as any other
WorkerFinishLate(s) ==
    /\ pc = "collect"
    /\ status[s] = "running"
    /\ s \in overdue
    /\ FutureCompletes(s)

NextTimeout ==
    \/ Next
    \/ \E s \in Samples : WorkerOverdue(s)
    \/ \E s \in Samples : WorkerFinishLate(s)

\* The pool runs every submitted call and main goes on whenever it can: the
\* steps of Next are taken when they stay possible.  Nothing makes a worker
\* pass 3600 s, and nothing makes an overdue worker finish.
SpecTimeout == Init /\ [][NextTimeout]_vars /\ WF_vars(Next)

\* ------------------------------------------------------ one worker, alone
\* run_single_sample_worker called once, for a sample of iteration 1, in an
\* environment whose engine stages may exit 0 without their output.
WorkerInit ==
    /\ args \in Args
    /\ cpu \in CpuCounts
    /\ pc = "worker"
    /\ iteration = 1
    /\ current_structure = InputStructure
    /\ convergence = FALSE
    /\ best_structure = UnboundStructure
    /\ best_distance = Unbound
    /\ best_distance_angstrom = Unbound
    /\ input_file = InputStructure
    /\ status = [s \in 1..MaxSamples + 1 |-> "idle"]
    /\ overdue = {}
    /\ future = [s \in 1..MaxSamples + 1 |-> NoFuture]
    /\ sample_results = <<>>
    /\ best_result = NoResult
    /\ summary = {}
    /\ report = NoReport
    /\ StagesIdle

WorkerCall(s) ==
    /\ pc = "worker"
    /\ \E env \in WorkerEnvMissing :
           LET f == run_single_sample_worker(s, iteration,
                                             args.simulation_threshold, env)
           IN  /\ future' = [future EXCEPT ![s] = f]
               /\ sample_results' = IF f.raised
                                    THEN sample_results
                                    ELSE Append(sample_results, f.result)
    /\ status' = [status EXCEPT ![s] = "collected"]
    /\ pc' = "returned"
    /\ UNCHANGED <<stage_vars, args, cpu, iteration, main_vars, input_file, overdue,
                   best_result, summary, report>>

WorkerNext == \E s \in Samples : WorkerCall(s)

SpecWorker == WorkerInit /\ [][WorkerNext]_vars

\* ------------------------------------------------- a stage on its own
\* the defaults of argparse (lines 639-645), within the bounds
DefaultArgs ==
    [distance_threshold |-> 50, simulation_threshold |-> 500,
     max_iterations |-> MaxIterations, num_samples |-> MaxSamples,
     max_workers |-> None]

\* a stage called on its own, inside iteration 1 of a run with the default
\* command line: the state of the run stays as it is
StageAlone(stage) ==
    /\ args = DefaultArgs
    /\ cpu \in CpuCounts
    /\ pc = stage
    /\ iteration = 1
    /\ current_structure = InputStructure
    /\ convergence = FALSE
    /\ best_structure = UnboundStructure
    /\ best_distance = Unbound
    /\ best_distance_angstrom = Unbound
    /\ input_file = InputStructure
    /\ status = [s \in 1..MaxSamples + 1 |-> "idle"]
    /\ overdue = {}
    /\ future = [s \in 1..MaxSamples + 1 |-> NoFuture]
    /\ sample_results = <<>>
    /\ best_result = NoResult
    /\ summary = {}
    /\ report = NoReport

\* ------------------------------------------------ the seed of an MD segment
\* values random.randint(1, 999999) can return (line 396)
RandInts == {1, 1001, 999999}

\* line 396
gen_seed(rand, sample_id) == rand + sample_id * 1000

SeedInit == StageAlone("md") /\ StagesIdle

\* run_md_simulation_process for sample s writes md.mdp with a new gen_seed
\* (lines 396-417); a sample is run again up to MaxRuns times.
run_md_simulation_process(s) ==
    /\ pc = "md"
    /\ Len(seeds[s]) < MaxRuns
    /\ \E rand \in RandInts :
           seeds' = [seeds EXCEPT ![s] = Append(@, gen_seed(rand, s))]
    /\ UNCHANGED <<prepare, extract, run_vars, script_vars>>

SeedNext == \E s \in Samples : run_md_simulation_process(s)

SpecSeed == SeedInit /\ [][SeedNext]_vars

\* ----------------------------------------------------------------- PREPARE
\* line 158, with the default force_field of line 140 (line 475 passes none)
ForceFields == <<"charmm36-jul2022", "amber99sb-ildn", "gromos54a7", "oplsaa">>
\* the two files line 177 looks for
Artifacts == {"complex.gro", "topol.top"}

\* prepare_pdb_system has entered its loop (line 161).  The directory is
\* made with exist_ok=True (line 144): it may hold files of an earlier run.
\*   ff       : index of the force field to try next
\*   files    : which of the two artifacts exist in the directory
\*   tried    : the force fields tried, in order
\*   wrote    : what the invocation of each of them wrote
\*   accepted : index of the force field at which line 179 set success
PrepareInit ==
    /\ StageAlone("prepare")
    /\ seeds = NoSeeds
    /\ extract = NoExtract
    /\ ScriptsIdle
    /\ \E stale \in SUBSET Artifacts :
           prepare = [NoPrepare EXCEPT !.ff = 1, !.files = stale,
                                       !.returned = "running"]

\* one pass of the loop of lines 161-184: pdb2gmx runs with check=False and
\* writes some of the artifacts (none when run_command raises, which line 183
\* catches); line 177 accepts when both files exist.
TryForceField ==
    /\ prepare.returned = "running"
    /\ ~prepare.success
    /\ prepare.ff <= Len(ForceFields)
    /\ \E w \in SUBSET Artifacts :
           LET files == prepare.files \cup w
               exist == Artifacts \subseteq files
           IN  prepare' = [prepare EXCEPT
                              !.files = files,
                              !.tried = Append(@, ForceFields[prepare.ff]),
                              !.wrote = Append(@, w),
                              !.success = exist,
                              !.accepted = IF exist THEN prepare.ff ELSE 0,
                              !.ff = IF exist THEN @ ELSE @ + 1]
    /\ UNCHANGED <<seeds, extract, run_vars, script_vars>>

\* lines 186-187: the list is used up
PrepareFails ==
    /\ prepare.returned = "running"
    /\ ~prepare.success
    /\ prepare.ff > Len(ForceFields)
    /\ prepare' = [prepare EXCEPT !.returned = "raised"]
    /\ UNCHANGED <<seeds, extract, run_vars, script_vars>>

\* lines 189-245: editconf, solvate, grompp and genion, each with check=True
PrepareFinish ==
    /\ prepare.returned = "running"
    /\ prepare.success
    /\ \E outcome \in StepOutcomes :
           prepare' = [prepare EXCEPT
                          !.returned = IF outcome = "ok" THEN "solv_ions.gro"
                                       ELSE "raised"]
    /\ UNCHANGED <<seeds, extract, run_vars, script_vars>>

PrepareNext == TryForceField \/ PrepareFails \/ PrepareFinish

SpecPrepare == PrepareInit /\ [][PrepareNext]_vars

\* ------------------------------------------------- the extractor on its own
FileExts == {".pdb", ".gro", ".xyz"}

ExtractInit ==
    /\ StageAlone("extract")
    /\ seeds = NoSeeds
    /\ prepare = NoPrepare
    /\ ScriptsIdle
    /\ \E e \in FileExts, st \in Structures, o \in DistanceOutcomes :
           extract = [file_ext |-> e, structure |-> st, outcome |-> o,
                      distance |-> Unbound]

Extract ==
    /\ pc = "extract"
    /\ extract.distance = Unbound
    /\ extract' = [extract EXCEPT
                      !.distance = calculate_distance_from_structure(
                                       extract.file_ext, extract.structure,
                                       extract.outcome)]
    /\ UNCHANGED <<seeds, prepare, run_vars, script_vars>>

ExtractNext == Extract

SpecExtract == ExtractInit /\ [][ExtractNext]_vars

\* ============================================== SuMD_script.py: run_sumd
\* run_sumd is modelled as its own control flow over the outcomes of the
\* functions it calls (prepare_system, run_energy_minimization, run_segment,
\* check_distance, save_best_trajectory): each of them returns or raises.
\* run_command of SuMD_script.py (lines 9-34) passes input_str.encode() to
\* subprocess.run(..., text=True); CPython refuses bytes as the input of a
\* text-mode process (AttributeError), so with this run_command the calls
\* that give input_str (genion line 155, make_ndx line 198, pairdist line
\* 250) raise.  Both outcomes of every call are kept here: what is modelled
\* is the control flow of run_sumd around the calls.
MaxEminIter == 2        \* values of --max_emin_iter: 0..MaxEminIter
MaxSegments == 2        \* values of --max_segments: 0..MaxSegments
EminSamples == 4        \* line 323: range(1, 5)
CutoffDefault == 50     \* line 406: --distance_threshold 0.5 nm

\* distances check_distance returns after a minimization, after a segment
EminDistances == {50, 70}
SegmentDistances == {50, 60, 70}

\* what a call that ends in check_distance gives: a distance or an exception
CallOutcomes(distances) ==
    {[raised |-> TRUE, dist |-> Unbound]}
        \cup {[raised |-> FALSE, dist |-> d] : d \in distances}

SumdArgs ==
    [max_emin_iter : 0..MaxEminIter, max_segments : 0..MaxSegments,
     distance_threshold : {CutoffDefault}]

\* run_energy_minimization (lines 206-222) returns emin_<tag>.gro, with the
\* tag <emin_iter>_<sample_id> of line 324
run_energy_minimization(emin_iter, sample_id) == Coord("emin", emin_iter, sample_id)

\* run_segment (lines 224-238) returns segment_<segment_number>.gro
run_segment(segment_number) == Coord("segment", segment_number, 0)

\* lines 322-332: the samples whose two calls returned, in sample_id order
SampleResults(emin_iter, outcomes) ==
    LET Upto[i \in 0..EminSamples] ==
            IF i = 0 THEN <<>>
            ELSE IF outcomes[i].raised THEN Upto[i - 1]
            ELSE Append(Upto[i - 1],
                        [dist |-> outcomes[i].dist,
                         coord |-> run_energy_minimization(emin_iter, i)])
    IN  Upto[EminSamples]

\* list.sort(key=lambda x: x[0]) (lines 339 and 378): ascending and stable
RECURSIVE InsertByDistance(_, _)
InsertByDistance(sorted, x) ==
    IF sorted = <<>> THEN <<x>>
    ELSE IF Head(sorted).dist <= x.dist
         THEN <<Head(sorted)>> \o InsertByDistance(Tail(sorted), x)
         ELSE <<x>> \o sorted

RECURSIVE SortByDistance(_)
SortByDistance(seq) ==
    IF seq = <<>> THEN <<>>
    ELSE InsertByDistance(SortByDistance(SubSeq(seq, 1, Len(seq) - 1)),
                          seq[Len(seq)])

\* the last sample that returned, whatever its distance
LastSample(sample_results_) == sample_results_[Len(sample_results_)]

\* lines 339-340: the first entry of the sorted sample results
BestSample(sample_results_) == Head(SortByDistance(sample_results_))

\* a segment loop that only stops at the cutoff
SegmentStopsAtCutoffOnly(current_distance, previous_distance, distance_threshold) ==
    current_distance <= distance_threshold

\* lines 367-373: the two breaks of the segment loop
SegmentStops(current_distance, previous_distance, distance_threshold) ==
    \/ current_distance <= distance_threshold
    \/ previous_distance # None /\ current_distance >= previous_distance

SumdInit ==
    /\ StageAlone("run_sumd")
    /\ seeds = NoSeeds
    /\ prepare = NoPrepare
    /\ extract = NoExtract
    /\ gmx = NoGmx
    /\ \E a \in SumdArgs : sumd = [NoSumd EXCEPT !.pc = "prepare", !.args = a]

\* lines 295-317: the directory, the mdp files, the copy and prepare_system;
\* any exception leaves run_sumd
SumdPrepare ==
    /\ sumd.pc = "prepare"
    /\ \E outcome \in StepOutcomes :
           sumd' = IF outcome = "ok"
                   THEN [sumd EXCEPT !.pc = "emin",
                                     !.current_coord = Coord("neutralized", 0, 0)]
                   ELSE [sumd EXCEPT !.pc = "raised"]
    /\ UNCHANGED <<seeds, prepare, extract, gmx, run_vars>>

\* one pass of the while body, lines 319-351: four samples from current_coord
\* (the try of line 325 catches what a sample raises), then either the break
\* of line 336, or the selection and the cutoff test
EminIteration ==
    /\ sumd.pc = "emin"
    /\ sumd.emin_iter < sumd.args.max_emin_iter
    /\ \E outcomes \in [1..EminSamples -> CallOutcomes(EminDistances)] :
           LET emin_iter == sumd.emin_iter + 1
               results == SampleResults(emin_iter, outcomes)
               started == [sumd EXCEPT
                              !.emin_iter = emin_iter,
                              !.emin_starts = Append(@, sumd.current_coord)]
           IN  IF results = <<>>
               THEN sumd' = [started EXCEPT !.sample_results = results,
                                            !.emin_end = "all failed",
                                            !.pc = "md"]
               ELSE LET best == BestSample(results)
                        cutoff == best.dist <= sumd.args.distance_threshold
                    IN  sumd' = [started EXCEPT
                                    !.sample_results = SortByDistance(results),
                                    !.all_best_structures = Append(@, best),
                                    !.current_coord = best.coord,
                                    !.emin_end = IF cutoff THEN "cutoff" ELSE "",
                                    !.pc = IF cutoff THEN "md" ELSE "emin"]
    /\ UNCHANGED <<seeds, prepare, extract, gmx, run_vars>>

\* lines 318 and 352-353: the while condition fails, the else clause runs
EminExhausted ==
    /\ sumd.pc = "emin"
    /\ sumd.emin_iter >= sumd.args.max_emin_iter
    /\ sumd' = [sumd EXCEPT !.emin_end = "max", !.pc = "md"]
    /\ UNCHANGED <<seeds, prepare, extract, gmx, run_vars>>

\* one pass of the for body, lines 359-375 (line 358 sets previous_distance
\* to None before the loop: it is None in NoSumd); run_segment or
\* check_distance raising leaves run_sumd
Segment ==
    /\ sumd.pc = "md"
    /\ sumd.segment < sumd.args.max_segments
    /\ \E outcome \in CallOutcomes(SegmentDistances) :
           LET segment == sumd.segment + 1
               md_coord == run_segment(segment)
               called == [sumd EXCEPT
                             !.segment = segment,
                             !.segment_starts = Append(@, sumd.current_coord)]
           IN  IF outcome.raised
               THEN sumd' = [called EXCEPT !.pc = "raised"]
               ELSE LET current_distance == outcome.dist
                        stop == SegmentStops(current_distance,
                                             sumd.previous_distance,
                                             sumd.args.distance_threshold)
                    IN  sumd' = [called EXCEPT
                                    !.current_distance = current_distance,
                                    !.all_best_structures =
                                        Append(@, [dist |-> current_distance,
                                                   coord |-> md_coord]),
                                    !.current_coord = md_coord,
                                    !.md_end =
                                        IF current_distance
                                              <= sumd.args.distance_threshold
                                        THEN "cutoff"
                                        ELSE IF stop THEN "no decrease" ELSE "",
                                    !.previous_distance =
                                        IF stop THEN @ ELSE current_distance,
                                    !.pc = IF stop THEN "save" ELSE "md"]
    /\ UNCHANGED <<seeds, prepare, extract, gmx, run_vars>>

\* line 359: range(1, max_segments + 1) is used up
SegmentsExhausted ==
    /\ sumd.pc = "md"
    /\ sumd.segment >= sumd.args.max_segments
    /\ sumd' = [sumd EXCEPT !.pc = "save"]
    /\ UNCHANGED <<seeds, prepare, extract, gmx, run_vars>>

\* lines 378-387: sort, print all_best_structures[0][0] (IndexError on an
\* empty list), save the first five, return the smallest distance
SaveBest ==
    /\ sumd.pc = "save"
    /\ \E outcome \in StepOutcomes :
           LET sorted == SortByDistance(sumd.all_best_structures)
           IN  sumd' = IF sorted = <<>> \/ outcome = "raise"
                       THEN [sumd EXCEPT !.all_best_structures = sorted,
                                         !.pc = "raised"]
                       ELSE [sumd EXCEPT !.all_best_structures = sorted,
                                         !.returned = sorted[1].dist,
                                         !.pc = "returned"]
    /\ UNCHANGED <<seeds, prepare, extract, gmx, run_vars>>

SumdNext ==
    \/ SumdPrepare
    \/ EminIteration
    \/ EminExhausted
    \/ Segment
    \/ SegmentsExhausted
    \/ SaveBest

SpecRunSumd == SumdInit /\ [][SumdNext]_vars

\* ============================================ sumd_gromacs.py: main
\* distances calculate_distance (lines 51-85) returns: finite values and the
\* float('inf') of line 73
GmxDistances == {50, 60, Inf}
\* the stages in the order main calls them
GmxStages == <<"PREPARE", "MINIMIZE", "MD">>

\* A stage function (prepare_system, run_energy_minimization,
\* run_md_simulation) ends in one of StageOutcomes: it raises, it returns
\* with its output structure written, or it returns its output's name with
\* no such file ("missing": lines 252, 275 and 315 return a constant name;
\* the genion call of lines 242-250 and the trjconv call of lines 303-311
\* give run_command a list with shell=True, which runs only "echo").
GmxInit ==
    /\ StageAlone("sumd_gromacs")
    /\ seeds = NoSeeds
    /\ prepare = NoPrepare
    /\ extract = NoExtract
    /\ sumd = NoSumd
    /\ \E t \in DistanceThresholds :
           gmx = [NoGmx EXCEPT !.pc = "prepare", !.distance_threshold = t]

\* what a stage call leaves in main's state: the stage is on the list of
\* the stages run; an exception is caught by main, which returns 1
StageCall(g, stage, output, outcome, next_pc) ==
    LET run == [g EXCEPT !.stages = Append(@, stage)]
    IN  CASE outcome = "raise" ->
                 [run EXCEPT !.failed = @ \cup {stage}, !.returned = 1,
                             !.pc = "returned"]
          [] outcome = "missing" ->
                 [run EXCEPT !.failed = @ \cup {stage}, !.pc = next_pc]
          [] OTHER ->
                 [run EXCEPT !.files = @ \cup {output}, !.pc = next_pc]

\* lines 330-338
GmxPrepare ==
    /\ gmx.pc = "prepare"
    /\ \E outcome \in StageOutcomes :
           gmx' = StageCall(gmx, "PREPARE", "solv_ions.gro", outcome,
                            "initial_distance")
    /\ UNCHANGED <<seeds, prepare, extract, sumd, run_vars>>

\* line 341, outside every try: an exception of calculate_distance (the
\* parser's, or the format of line 342 on it) leaves main
GmxInitialDistance ==
    /\ gmx.pc = "initial_distance"
    /\ \E outcome \in CallOutcomes(GmxDistances) :
           gmx' = IF outcome.raised
                  THEN [gmx EXCEPT !.pc = "raised"]
                  ELSE [gmx EXCEPT !.initial_distance = outcome.dist,
                                   !.pc = "minimize"]
    /\ UNCHANGED <<seeds, prepare, extract, sumd, run_vars>>

\* lines 346-350; grompp with check=True fails on an input structure that is
\* not there (lines 259-266)
GmxMinimize ==
    /\ gmx.pc = "minimize"
    /\ \E outcome \in StageOutcomes :
           /\ "solv_ions.gro" \notin gmx.files => outcome = "raise"
           /\ gmx' = StageCall(gmx, "MINIMIZE", "em.gro", outcome,
                               "em_distance")
    /\ UNCHANGED <<seeds, prepare, extract, sumd, run_vars>>

\* line 353, outside every try
GmxEmDistance ==
    /\ gmx.pc = "em_distance"
    /\ \E outcome \in CallOutcomes(GmxDistances) :
           /\ "em.gro" \notin gmx.files => outcome.raised
           /\ gmx' = IF outcome.raised
                     THEN [gmx EXCEPT !.pc = "raised"]
                     ELSE [gmx EXCEPT !.em_distance = outcome.dist,
                                      !.pc = "gate"]
    /\ UNCHANGED <<seeds, prepare, extract, sumd, run_vars>>

\* lines 357-363
GmxMd ==
    /\ gmx.pc = "gate"
    /\ gmx.em_distance <= gmx.distance_threshold
    /\ \E outcome \in StageOutcomes :
           gmx' = StageCall(gmx, "MD", "md.gro", outcome, "md_distance")
    /\ UNCHANGED <<seeds, prepare, extract, sumd, run_vars>>

\* lines 374-380
GmxSkipMd ==
    /\ gmx.pc = "gate"
    /\ ~(gmx.em_distance <= gmx.distance_threshold)
    /\ gmx' = [gmx EXCEPT !.returned = 0, !.pc = "returned"]
    /\ UNCHANGED <<seeds, prepare, extract, sumd, run_vars>>

\* lines 366-373 and 380
GmxMdDistance ==
    /\ gmx.pc = "md_distance"
    /\ \E outcome \in CallOutcomes(GmxDistances) :
           /\ "md.gro" \notin gmx.files => outcome.raised
           /\ gmx' = IF outcome.raised
                     THEN [gmx EXCEPT !.pc = "raised"]
                     ELSE [gmx EXCEPT !.md_distance = outcome.dist,
                                      !.returned = 0, !.pc = "returned"]
    /\ UNCHANGED <<seeds, prepare, extract, sumd, run_vars>>

GmxNext ==
    \/ GmxPrepare
    \/ GmxInitialDistance
    \/ GmxMinimize
    \/ GmxEmDistance
    \/ GmxMd
    \/ GmxSkipMd
    \/ GmxMdDistance

SpecGromacsMain == GmxInit /\ [][GmxNext]_vars

\* ================================================================== claims
Results == {sample_results[i] : i \in 1..Len(sample_results)}
NotFailed(r) == r.simulation_type # "failed"
\* post-MD distance if the sample ran MD, else post-minimization distance
RelevantDistance(r) ==
    IF r.simulation_type = "EM+MD" THEN r.md_distance ELSE r.em_distance
InSeq(x, seq) == \E i \in 1..Len(seq) : seq[i] = x
Collected == {s \in Samples : status[s] = "collected"}
\* the samples that ended FAILED or whose worker raised
FailedOrRaised ==
    {s \in Collected : future[s].raised \/ ~NotFailed(future[s].result)}
Terminal == {"report", "done", "crashed"}

\* C1: when at least one sample of the iteration is not FAILED, the selected
\* best is a non-FAILED sample of the iteration whose relevant distance
\* (post-MD if it ran MD, else post-minimization) is <= that of every
\* non-FAILED sample.
C1_BestIsMinimal ==
    (pc = "selected" /\ \E r \in Results : NotFailed(r))
    => /\ best_result \in Results
       /\ NotFailed(best_result)
       /\ \A r \in Results :
              NotFailed(r) => RelevantDistance(best_result) <= RelevantDistance(r)

\* a selection among an EM+MD sample and an EM-only sample of different
\* relevant distances
C1_Witness ==
    /\ pc = "selected"
    /\ \E r, q \in Results :
           /\ r.simulation_type = "EM+MD"
           /\ q.simulation_type = "EM_only"
           /\ RelevantDistance(r) # RelevantDistance(q)

\* the non-FAILED results at the minimum final distance
TiedAtMinimum ==
    {r \in Results :
        /\ NotFailed(r)
        /\ \A q \in Results : NotFailed(q) => r.final_distance <= q.final_distance}

\* C2: when two or more non-FAILED samples share the minimum final distance,
\* the selected best is the one of them with the lowest sample_id.
C2_TieLowestSampleId ==
    (pc = "selected" /\ Cardinality(TiedAtMinimum) >= 2)
    => /\ best_result \in TiedAtMinimum
       /\ \A r \in TiedAtMinimum : best_result.sample_id <= r.sample_id

\* the best the code selects from the results supplied in a given order
SelectionOf(results) ==
    IF ValidResults(results) = <<>>
    THEN NoResult
    ELSE PyMinByFinalDistance(ValidResults(results))

Orders(n) == {f \in [1..n -> 1..n] : \A i, j \in 1..n : f[i] = f[j] => i = j}
Reordered(seq, f) == [i \in 1..Len(seq) |-> seq[f[i]]]

\* C3: for a fixed multiset of per-sample outcomes the selected best is the
\* same for every completion order.  With a pool of num_samples processes
\* every order of completion is possible, so the best must equal the
\* selection from every reordering of the collected results.
C3_OrderIndependent ==
    (pc = "selected" /\ max_workers >= args.num_samples)
    => \A f \in Orders(Len(sample_results)) :
           SelectionOf(Reordered(sample_results, f)) = best_result

\* C4: in a batch of N > 1 samples of which exactly one is FAILED or raised,
\* the best is non-null and is one of the other N-1 samples.
C4_OneFailureIsolated ==
    (pc = "selected" /\ args.num_samples > 1 /\ Cardinality(FailedOrRaised) = 1)
    => /\ best_result # NoResult
       /\ best_result.final_structure # NoneStructure
       /\ \E s \in Samples \ FailedOrRaised : best_result = future[s].result

\* a batch of N > 1 whose one bad sample raised out of its worker
C4_Witness ==
    /\ pc = "selected"
    /\ args.num_samples > 1
    /\ Cardinality(FailedOrRaised) = 1
    /\ \E s \in FailedOrRaised : future[s].raised

Aborted ==
    pc \in Terminal /\ best_structure = NoneStructure /\ ~convergence

\* C5: if every sample of an iteration is FAILED the batch runner returns
\* best = null, the controller leaves the loop (ABORTED), and no further
\* iteration is ever started.
C5_AllFailedAborts ==
    [][/\ (pc = "selected" /\ FailedOrRaised = Samples)
          => /\ best_result = NoResult
             /\ best_structure' = NoneStructure
             /\ pc' = "report"
             /\ ~convergence'
       /\ Aborted => (Aborted' /\ iteration' = iteration)]_vars

\* a run that ended ABORTED with iterations left
C5_Witness ==
    /\ pc \in {"done", "crashed"}
    /\ best_structure = NoneStructure
    /\ iteration >= 1
    /\ iteration < args.max_iterations

\* C6: when the batch runner returns a best whose final distance is <= the
\* convergence threshold the controller enters CONVERGED in that iteration
\* and never starts another one; when the distance is above the threshold it
\* does not enter CONVERGED in that iteration.
C6_ConvergedIffWithinThreshold ==
    [][/\ (pc = "selected" /\ best_result # NoResult /\ pc' \in {"loop", "report"})
          => IF best_result.final_distance <= args.distance_threshold
             THEN convergence' /\ pc' = "report" /\ iteration' = iteration
             ELSE ~convergence'
       /\ convergence
          => (convergence' /\ iteration' = iteration /\ pc' \in {"report", "done"})
      ]_vars

\* a run that converged on a best distance equal to the threshold, with
\* iterations left, and reported it
C6_Witness ==
    /\ pc = "done"
    /\ convergence
    /\ best_distance = args.distance_threshold
    /\ iteration < args.max_iterations
    /\ report.state = "converged"

\* C7: if every iteration returned a non-null best above the threshold (the
\* loop was left neither by convergence nor by abort) and max_iterations >= 1,
\* exactly max_iterations iterations were run, the run ends EXHAUSTED, and
\* current_structure is the best structure of the last iteration.
C7_ExhaustedAfterMaxIterations ==
    (/\ pc \in {"report", "done"}
     /\ ~convergence
     /\ best_structure # NoneStructure
     /\ args.max_iterations >= 1)
    => /\ iteration = args.max_iterations
       /\ best_structure.iteration = args.max_iterations
       /\ current_structure = best_structure
       /\ best_distance > args.distance_threshold
       /\ best_distance_angstrom # Unbound
       /\ pc = "done" => /\ report.state = "max iterations reached"
                         /\ report.structure = current_structure

\* a run of two or more iterations that ended EXHAUSTED
C7_Witness ==
    /\ pc = "done"
    /\ ~convergence
    /\ args.max_iterations >= 2
    /\ iteration = args.max_iterations
    /\ best_structure.iteration = args.max_iterations
    /\ report.state = "max iterations reached"

\* the worker's MINIMIZE stage succeeded
Minimized(f) ==
    InSeq("MINIMIZE", f.stages) /\ ~(f.result.error = "em")

\* C8: a worker whose MINIMIZE succeeded invokes MD_SEGMENT if and only if
\* its pre-minimization distance, in Angstrom, is <= the gate (Angstrom); no
\* worker invokes MD_SEGMENT otherwise; above the gate the result is
\* EM_only with the minimized structure and no post-MD distance.
C8_GateOnInitialDistance ==
    \A s \in Collected :
        LET f == future[s]
        IN  /\ InSeq("MD_SEGMENT", f.stages)
               => (f.initial # None /\ Times10(f.initial) <= args.simulation_threshold)
            /\ Minimized(f)
               => (InSeq("MD_SEGMENT", f.stages)
                     <=> Times10(f.initial) <= args.simulation_threshold)
            /\ (Minimized(f) /\ Times10(f.initial) > args.simulation_threshold)
               => /\ f.result.simulation_type = "EM_only"
                  /\ f.result.final_structure = SampleFile(iteration, s, "em.gro")
                  /\ f.result.md_distance = None
                  /\ f.result.final_distance = f.result.em_distance

\* a worker stopped after MINIMIZE by its initial distance although its
\* post-minimization distance is within the gate
C8_Witness ==
    \E s \in Collected :
        /\ Minimized(future[s])
        /\ Times10(future[s].initial) > args.simulation_threshold
        /\ Times10(future[s].result.em_distance) <= args.simulation_threshold
        /\ future[s].result.simulation_type = "EM_only"

\* C9: a worker whose MINIMIZE succeeded and whose MD_SEGMENT failed returns
\* a MINIMIZED (EM_only) result with the minimized structure and the error.
C9_MdFailureDegrades ==
    \A s \in Collected :
        LET f == future[s]
        IN  (InSeq("MD_SEGMENT", f.stages) /\ f.result.simulation_type # "EM+MD")
            => /\ ~f.raised
               /\ f.result.simulation_type = "EM_only"
               /\ f.result.final_structure = SampleFile(iteration, s, "em.gro")
               /\ f.result.error # NoError

\* C10: no worker ends by raising to the batch runner; a worker that met an
\* exception returns a FAILED result carrying the message.
C10_WorkerNeverRaises ==
    \A s \in Collected :
        /\ ~future[s].raised
        /\ ~NotFailed(future[s].result) => future[s].result.error # NoError

\* the worker invoked MINIMIZE and the stage failed: a command of it raised,
\* or it left no em.gro
MinimizeFailed(f) ==
    InSeq("MINIMIZE", f.stages) /\ "em.gro" \notin f.produced

\* C11: a worker whose MINIMIZE stage failed returns a FAILED result, with
\* final_structure null and an error message, and never invokes MD_SEGMENT.
C11_MinimizeFailureFails ==
    \A s \in Collected :
        LET f == future[s]
        IN  MinimizeFailed(f)
            => /\ ~f.raised
               /\ f.result.simulation_type = "failed"
               /\ f.result.final_structure = NoneStructure
               /\ f.result.error # NoError
               /\ ~InSeq("MD_SEGMENT", f.stages)

\* C12: in every returned result stage FAILED holds exactly when
\* final_structure is null; a result that reached MD has a non-null post-MD
\* distance, which is its final distance; a MINIMIZED result has a null
\* post-MD distance and its final distance is the post-minimization distance.
C12_ResultShape ==
    \A s \in Collected :
        LET r == future[s].result
        IN  ~future[s].raised
            => /\ InSeq(r, sample_results)
               /\ r.simulation_type \in {"failed", "EM_only", "EM+MD"}
               /\ r.simulation_type = "failed" <=> r.final_structure = NoneStructure
               /\ r.simulation_type = "EM+MD"
                  => /\ InSeq("MD_SEGMENT", future[s].stages)
                     /\ r.md_distance # None
                     /\ r.final_distance = r.md_distance
               /\ r.simulation_type = "EM_only"
                  => /\ r.md_distance = None
                     /\ r.final_distance = r.em_distance

\* a result that reached MD whose post-MD distance differs from its
\* post-minimization distance
C12_Witness ==
    \E s \in Collected :
        /\ ~future[s].raised
        /\ future[s].result.simulation_type = "EM+MD"
        /\ future[s].result.md_distance # future[s].result.em_distance
        /\ future[s].result.final_distance = future[s].result.md_distance

\* C13: a sample whose worker ran for longer than the per-sample timeout is
\* in the results the iteration collected, as FAILED with reason "timeout".
C13_TimeoutIsFailedResult ==
    pc = "selected"
    => \A s \in overdue :
           \E r \in Results :
               /\ r.sample_id = s
               /\ r.simulation_type = "failed"
               /\ r.error = "timeout"

\* C14: when one worker stays beyond the per-sample timeout and its siblings
\* have completed, the collection still ends: the batch runner leaves the
\* collecting loop and goes on to select.
C14_StuckWorkerDoesNotBlock ==
    \A s \in 1..MaxSamples :
        (/\ pc = "collect"
         /\ args.num_samples > 1
         /\ s \in overdue
         /\ status[s] = "running"
         /\ \A q \in Samples \ {s} : status[q] = "collected")
            ~> (pc # "collect")

\* C15: iterations do not overlap: workers exist only inside a batch, the
\* best is selected when every worker of the batch has finished, the batch
\* of iteration 1 runs on the run's input and the batch of iteration k+1 on
\* the final structure of the best of iteration k.
C15_IterationsInSequence ==
    /\ (\E s \in DOMAIN status : status[s] # "idle")
       => pc \in {"collect", "selected"}
    /\ pc = "selected" => \A s \in Samples : status[s] = "collected"
    /\ pc \in {"collect", "selected"}
       => IF iteration = 1
          THEN input_file = InputStructure
          ELSE /\ input_file = best_structure
               /\ best_structure.iteration = iteration - 1
               /\ best_structure.file \in {"em.gro", "md.gro"}
               /\ (iteration - 1) \in summary

\* a worker of iteration 2 running on a final structure of iteration 1
C15_Witness ==
    /\ pc = "collect"
    /\ iteration = 2
    /\ \E s \in Samples : status[s] = "running"
    /\ input_file.iteration = 1
    /\ input_file # InputStructure

\* C16: whatever max_iterations and whichever iteration ended the loop, the
\* final report is produced without failing, and it carries a distance and
\* the best structure, non-null when some iteration had a non-FAILED sample.
C16_ReportAlwaysProduced ==
    /\ pc = "crashed" => report.state # "exception NameError"
    /\ pc = "done"
       => /\ report.distance # Unbound
          /\ report.structure # UnboundStructure
          /\ summary # {} => report.structure # NoneStructure

\* C17: the reported terminal state is the way the loop ended: CONVERGED
\* after convergence, ABORTED after an iteration whose samples all failed
\* (never "max iterations reached"), EXHAUSTED otherwise.
C17_ReportMatchesEnding ==
    pc = "done"
    => report.state = IF convergence THEN "converged"
                      ELSE IF best_structure = NoneStructure THEN "aborted"
                      ELSE "max iterations reached"

\* C18: no failure of PREPARE, MINIMIZE or MD_SEGMENT inside an iteration
\* ends the run by an exception leaving the controller.
C18_NoStageFailureEscapes ==
    pc = "crashed"
    => /\ report.state # "exception in prepare"
       /\ report.state = "exception NameError" => iteration = 0

\* C19: a sample whose final distance is infinite is never the selected
\* best; when the final distance of every sample is infinite the best is null.
C19_InfiniteDistanceRejected ==
    pc = "selected"
    => /\ best_result # NoResult => best_result.final_distance # Inf
       /\ (\A r \in Results : r.final_distance = Inf) => best_result = NoResult

\* C20: a result that is not FAILED comes from stages that wrote their
\* output: its final_structure is a file its worker's stages produced.
C20_SuccessNeedsArtifact ==
    \A s \in Collected :
        LET f == future[s]
        IN  (~f.raised /\ NotFailed(f.result))
            => /\ f.result.final_structure.file \in f.produced
               /\ "em.gro" \in f.produced
               /\ f.result.simulation_type = "EM+MD" => "md.gro" \in f.produced

\* C21: the seed of an MD segment is a function of (iteration, sample_id):
\* every run of the same sample of the same iteration uses the same seed.
C21_SeedDeterministic ==
    \A s \in Samples :
        \A i, j \in 1..Len(seeds[s]) : seeds[s][i] = seeds[s][j]

\* C22: in one run of an iteration two samples of different sample_id use
\* different seeds.
C22_SeedsDistinct ==
    \A s, q \in Samples :
        s # q => \A i \in 1..Min(Len(seeds[s]), Len(seeds[q])) :
                     seeds[s][i] # seeds[q][i]

\* C23: a failure while writing the summary of an iteration neither changes
\* nor prevents the return value: whenever a best was selected, the batch
\* runner returns its structure and distance to main.
C23_SummaryFailureKeepsReturn ==
    [][(pc = "selected" /\ best_result # NoResult)
          => /\ pc' # "crashed"
             /\ best_structure' = best_result.final_structure
             /\ best_distance' = best_result.final_distance]_vars

\* C24: when every sample of an iteration is FAILED, the summary of that
\* iteration, with the error of each sample, is written before the run
\* ends ABORTED.
C24_AbortHasSummary ==
    (pc \in Terminal /\ best_structure = NoneStructure) => iteration \in summary

\* C27: at every moment of an iteration at most min(num_samples, cpu_count)
\* workers run, and every sample 1..num_samples is dispatched: it is
\* submitted when the batch starts and has run when the best is selected.
C27_PoolBound ==
    /\ Cardinality(Running)
          <= (IF args.num_samples <= cpu THEN args.num_samples ELSE cpu)
    /\ pc \in {"collect", "selected"}
       => \A s \in Samples : status[s] \in {"queued", "running", "collected"}
    /\ pc = "selected"
       => \A s \in Samples : status[s] = "collected" /\ future[s] # NoFuture

\* the pool is full and a submitted sample waits for a free process
C27_Witness ==
    /\ pc = "collect"
    /\ cpu < args.num_samples
    /\ Cardinality(Running) = cpu
    /\ Queued # {}

\* C28: every file a worker writes lies in the directory of its sample, and
\* no file is written by two workers that run at the same time.
C28_WorkersWriteApart ==
    /\ \A s \in Running :
           \A f \in FilesWritten(iteration, s) : f.dir = SampleDir(iteration, s)
    /\ \A s, q \in Running :
           s # q => FilesWritten(iteration, s) \cap FilesWritten(iteration, q) = {}

\* C29: the results an iteration collected hold exactly one result for each
\* sample_id of 1..num_samples, the samples that failed or raised included.
C29_OneResultPerSample ==
    pc = "selected"
    => \A s \in Samples :
           Cardinality({i \in 1..Len(sample_results) :
                           sample_results[i].sample_id = s}) = 1

\* C30: when --max_workers is given, the workers running at the same time
\* are never more than min(max_workers, num_samples, cpu_count).
C30_MaxWorkersRespected ==
    args.max_workers # None => Cardinality(Running) <= max_workers_limit

\* C25: PREPARE tries the force fields in list order and stops at the first
\* one whose own invocation wrote both artifacts: the accepted force field
\* wrote both itself, nothing is tried after it, no force field that wrote
\* both is passed over, and PREPARE fails when the list is used up.
C25_FirstProducingForceField ==
    /\ prepare.tried = SubSeq(ForceFields, 1, Len(prepare.tried))
    /\ prepare.success
       => /\ prepare.accepted = Len(prepare.tried)
          /\ prepare.wrote[prepare.accepted] = Artifacts
    /\ \A i \in 1..Len(prepare.wrote) :
           prepare.wrote[i] = Artifacts => (prepare.success /\ prepare.accepted = i)
    /\ (prepare.returned = "raised" /\ ~prepare.success)
       => Len(prepare.tried) = Len(ForceFields)
    /\ prepare.returned = "solv_ions.gro" => prepare.success

\* the distance, in nm times 100, between the unweighted centroids of the
\* two groups of a structure given in Angstrom
CentroidSeparationNm(structure) ==
    (10 * Abs(Sum(structure.chain1) * Len(structure.chain2)
              - Sum(structure.chain2) * Len(structure.chain1)))
        \div (Len(structure.chain1) * Len(structure.chain2))

\* C26: for a .pdb or .gro structure whose two groups both have atoms the
\* extractor returns the distance between the centroids of the groups, in
\* nm; structures of different separations get different distances.
C26_ExtractorIsCentroidDistance ==
    (/\ extract.distance # Unbound
     /\ extract.file_ext \in {".pdb", ".gro"}
     /\ extract.structure.chain1 # <<>>
     /\ extract.structure.chain2 # <<>>)
    => extract.distance = CentroidSeparationNm(extract.structure)

\* C31: convergence has priority over exhaustion: when the best of the last
\* allowed iteration is within the threshold the run ends CONVERGED, and it
\* ends EXHAUSTED only when that best is above the threshold.
C31_ConvergenceBeforeExhaustion ==
    (/\ pc \in {"report", "done"}
     /\ args.max_iterations >= 1
     /\ iteration = args.max_iterations
     /\ best_structure # NoneStructure
     /\ best_structure # UnboundStructure)
    => /\ convergence <=> best_distance <= args.distance_threshold
       /\ pc = "done"
          => report.state = IF best_distance <= args.distance_threshold
                            THEN "converged"
                            ELSE "max iterations reached"

\* a run that converged in its last allowed iteration, the second
C31_Witness ==
    /\ pc = "done"
    /\ args.max_iterations = 2
    /\ iteration = 2
    /\ best_structure.iteration = 2
    /\ best_distance <= args.distance_threshold
    /\ report.state = "converged"

\* C32: after an iteration with a non-null best current_structure is that
\* best's final structure, also when the run enters CONVERGED; after an
\* abort current_structure is what it was before the iteration.
C32_CurrentStructureIsBest ==
    /\ (pc \in {"loop", "report", "done"}
        /\ best_structure # NoneStructure /\ best_structure # UnboundStructure)
       => current_structure = best_structure
    /\ (pc \in {"report", "done"} /\ best_structure = NoneStructure)
       => current_structure.iteration < iteration

\* the steps main and its batch runner can still take: 2 for each sample
\* waiting, 1 for each sample running, the selection and the return of the
\* batch, and that again for each iteration left
StepsLeft ==
    LET per_iteration == 2 * args.num_samples + 3
        later == IF iteration < args.max_iterations
                 THEN (args.max_iterations - iteration) * per_iteration
                 ELSE 0
    IN  CASE pc = "loop" -> later + 2
          [] pc = "collect" ->
                later + 4 + 2 * Cardinality(Queued) + Cardinality(Running)
          [] pc = "selected" -> later + 3
          [] pc = "report" -> 1
          [] OTHER -> 0

\* C33: the controller reaches a terminal state after at most max_iterations
\* calls of the batch runner: a run that has not ended can always take a
\* step, every step brings the end nearer (StepsLeft goes down), the batch
\* runner is called at most max_iterations times, and the iteration index
\* only goes up by one, so that no iteration is run twice.
C33_Terminates ==
    /\ [](pc \notin {"done", "crashed"} => ENABLED Next)
    /\ [](iteration <= args.max_iterations /\ StepsLeft >= 0)
    /\ [][/\ StepsLeft' < StepsLeft
          /\ iteration' \in {iteration, iteration + 1}
          /\ (pc' = "collect" /\ pc # "collect") => iteration' = iteration + 1
          /\ pc \in {"collect", "selected"} => iteration' = iteration]_vars

\* a run of max_iterations = 2 calls of the batch runner that has ended
C33_Witness ==
    /\ pc = "done"
    /\ args.max_iterations = 2
    /\ iteration = 2
    /\ summary = {1, 2}

\* C34: in an iteration with a non-null best the counts partition the
\* collected results: EM_only + EM+MD + failed is their number, the number
\* of valid results is EM_only + EM+MD, and the best is a valid result.
C34_CountsPartition ==
    (pc = "selected" /\ best_result # NoResult)
    => /\ em_only_count(sample_results) + em_md_count(sample_results)
             + failed_count(sample_results) = Len(sample_results)
       /\ Len(ValidResults(sample_results))
             = em_only_count(sample_results) + em_md_count(sample_results)
       /\ InSeq(best_result, ValidResults(sample_results))
       /\ NotFailed(best_result)

\* an iteration with a best and a failed sample
C34_Witness ==
    /\ pc = "selected"
    /\ best_result # NoResult
    /\ failed_count(sample_results) >= 1
    /\ em_only_count(sample_results) + em_md_count(sample_results) >= 1

\* C35: the best of every iteration is adopted as it is, also when it is
\* farther than the best of the iteration before: it becomes the next input,
\* and the report at the end carries the structure and distance of the best
\* of the last iteration run.
C35_LatestBestAdopted ==
    [][/\ (pc = "selected" /\ best_result # NoResult /\ pc' \in {"loop", "report"})
          => /\ best_structure' = best_result.final_structure
             /\ best_distance' = best_result.final_distance
             /\ pc' = "loop" => current_structure' = best_result.final_structure
       /\ (pc = "report" /\ pc' = "done" /\ best_structure # NoneStructure)
          => /\ report'.structure = best_structure
             /\ report'.distance = best_distance
             /\ best_structure.iteration = iteration]_vars

\* the best selected in iteration 2 is farther than the best of iteration 1
\* that main holds
C35_Witness ==
    /\ pc = "selected"
    /\ iteration = 2
    /\ best_result # NoResult
    /\ best_distance # Unbound
    /\ best_distance < best_result.final_distance

\* ------------------------------------------------ SuMD_script.run_sumd
\* the entries run_sumd has appended to all_best_structures
BestEntries ==
    {sumd.all_best_structures[i] : i \in 1..Len(sumd.all_best_structures)}
\* the minimization iterations that selected a best, the segments whose
\* distance was measured
EminSelected == {e.coord.n : e \in {b \in BestEntries : b.coord.kind = "emin"}}
SegmentsMeasured ==
    {e.coord.n : e \in {b \in BestEntries : b.coord.kind = "segment"}}
EminBest(k) == CHOOSE e \in BestEntries : e.coord.kind = "emin" /\ e.coord.n = k
SegmentDistance(k) ==
    (CHOOSE e \in BestEntries : e.coord = run_segment(k)).dist
\* the coordinates the minimization phase ends with
EminFinalCoord ==
    IF EminSelected = {} THEN Coord("neutralized", 0, 0)
    ELSE EminBest(CHOOSE k \in EminSelected : \A j \in EminSelected : j <= k).coord
\* segment k reached the cutoff or did not come nearer than segment k - 1
SegmentEndsPhase(k) ==
    \/ SegmentDistance(k) <= sumd.args.distance_threshold
    \/ k > 1 /\ SegmentDistance(k) >= SegmentDistance(k - 1)

C37_SegmentPhase ==
    /\ sumd.segment <= sumd.args.max_segments
    /\ Len(sumd.segment_starts) = sumd.segment
    /\ \A k \in 1..sumd.segment :
           sumd.segment_starts[k] =
               IF k = 1 THEN EminFinalCoord ELSE run_segment(k - 1)
    /\ \A k \in SegmentsMeasured :
           /\ k < sumd.segment => ~SegmentEndsPhase(k)
           /\ (k = sumd.segment /\ SegmentEndsPhase(k)) => sumd.pc # "md"
           /\ (k = sumd.segment /\ sumd.pc # "md" /\ ~SegmentEndsPhase(k))
              => sumd.segment = sumd.args.max_segments

\* the second segment started from the first segment's final coordinates and
\* ended the phase because it came no nearer
C37_Witness ==
    /\ sumd.pc = "save"
    /\ sumd.segment = 2
    /\ sumd.segment_starts[2] = run_segment(1)
    /\ sumd.md_end = "no decrease"
    /\ SegmentDistance(2) > sumd.args.distance_threshold

\* C38: the minimization phase runs at most max_emin_iter iterations; each
\* iteration with a sample that did not fail selects a sample of the
\* smallest distance among those, and the next iteration starts from its
\* coordinates; the phase is left at the first iteration whose best
\* distance is at or under the threshold.
C38_MinimizationPhase ==
    /\ sumd.emin_iter <= sumd.args.max_emin_iter
    /\ Len(sumd.emin_starts) = sumd.emin_iter
    /\ \A k \in 1..sumd.emin_iter :
           sumd.emin_starts[k] =
               IF k = 1 THEN Coord("neutralized", 0, 0)
               ELSE EminBest(k - 1).coord
    /\ \A k \in 1..sumd.emin_iter :
           k < sumd.emin_iter
           => /\ k \in EminSelected
              /\ EminBest(k).dist > sumd.args.distance_threshold
    /\ sumd.sample_results # <<>>
       => LET best == EminBest(sumd.emin_iter)
          IN  /\ sumd.emin_iter \in EminSelected
              /\ InSeq(best, sumd.sample_results)
              /\ \A i \in 1..Len(sumd.sample_results) :
                     best.dist <= sumd.sample_results[i].dist
              /\ sumd.segment = 0 => sumd.current_coord = best.coord
              /\ best.dist <= sumd.args.distance_threshold
                 => sumd.pc # "emin" /\ sumd.emin_end = "cutoff"

\* the second iteration started from the best sample of the first, chose
\* between samples of different distances and reached the cutoff
C38_Witness ==
    /\ sumd.pc = "md"
    /\ sumd.emin_end = "cutoff"
    /\ sumd.emin_iter = 2
    /\ sumd.emin_starts[2].kind = "emin"
    /\ Len(sumd.sample_results) >= 2
    /\ \E i \in 1..Len(sumd.sample_results) :
           sumd.sample_results[i].dist > EminBest(2).dist

\* ------------------------------------------------- sumd_gromacs.main
\* the stages run are PREPARE, MINIMIZE, MD, in this order, each once
StagesInOrder ==
    \E n \in 0..Len(GmxStages) : gmx.stages = SubSeq(GmxStages, 1, n)
\* MD is run exactly when the distance after minimization is at or under
\* the threshold
MdIffWithinThreshold ==
    /\ InSeq("MD", gmx.stages)
       => gmx.em_distance # Unbound
          /\ gmx.em_distance <= gmx.distance_threshold
    /\ (gmx.em_distance # Unbound /\ gmx.pc # "gate"
        /\ gmx.em_distance <= gmx.distance_threshold)
       => InSeq("MD", gmx.stages)
\* a stage that failed is the last stage run, and main ends returning 1
StageFailureReturns1 ==
    \A stage \in gmx.failed :
        /\ gmx.stages[Len(gmx.stages)] = stage
        /\ gmx.pc \in {"returned", "raised"} => gmx.returned = 1

\* C39: sumd_gromacs.main runs PREPARE, MINIMIZE and MD in this order; MD
\* runs if and only if the distance after minimization is at or under the
\* threshold; when a stage fails main returns 1 and runs no later stage.
C39_PipelineOrderAndFailure ==
    /\ StagesInOrder
    /\ MdIffWithinThreshold
    /\ StageFailureReturns1

====
